---- MODULE Spec2Model ----
(***************************************************************************)
(* Banking front end: SessionManager, AccountManager/BankAccount,          *)
(* TransactionProcessor, TransactionLog and the FrontEndApp command loop.   *)
(*                                                                         *)
(* Money is counted in thousandths of a dollar (1000 = $1.00), so that an   *)
(* amount typed with more than two decimals (1.999) is a value of the      *)
(* model and _format_amount's rounding and carry are computed.  Text is a   *)
(* sequence of one-character strings.                                      *)
(***************************************************************************)
EXTENDS Integers, Sequences, FiniteSets, TLC

VARIABLES
    logged_in,          \* SessionManager.logged_in
    session_mode,       \* SessionManager.session_mode: "standard", "admin", "None"
    current_user_name,  \* SessionManager.current_user_name (None in admin mode)
    withdrawal_total,   \* SessionManager.withdrawal_total
    transfer_total,     \* SessionManager.transfer_total
    paybill_total,      \* SessionManager.paybill_total
    accounts,           \* AccountManager.accounts: number -> BankAccount fields
    deleted_set,        \* AccountManager.deleted_set
    transactions,       \* TransactionLog.transactions: list of formatted lines
    file,               \* lines of daily_transaction.txt on disk
    session_first,      \* history: len(transactions) when the open session began
    last,               \* the command last run and the message it printed
    running,            \* the command loop of FrontEndApp.main is still reading
    script              \* the commands and values the operator types in this run

vars == <<logged_in, session_mode, current_user_name, withdrawal_total,
          transfer_total, paybill_total, accounts, deleted_set, transactions,
          file, session_first, last, running, script>>

session_vars == <<logged_in, session_mode, current_user_name, withdrawal_total,
                  transfer_total, paybill_total>>

totals == <<withdrawal_total, transfer_total, paybill_total>>

ledger_vars == <<accounts, deleted_set>>

----------------------------------------------------------------------------
(* Bounds of the model *)

\* account numbers the generator scans: range(NumberSpace) in place of range(100000)
NumberSpace == 5

\* successful transactions recorded before the model stops accepting more
MaxLog == 2

----------------------------------------------------------------------------
(* Program constants, in thousandths of a dollar *)

Unit == 1000

STANDARD_WITHDRAWAL_LIMIT == 500000

STANDARD_TRANSFER_LIMIT == 1000000

STANDARD_PAYBILL_LIMIT == 2000000

MAX_BALANCE == 99999990

\* float("inf"): float(input()) returns it for the text "inf"; it is above every
\* number, and a sum with it is it
Infinity == 2000000000

\* float("nan"): float(input()) returns it for the text "nan"; every comparison with
\* it is false, and a sum or difference with it is it
NaN == 2100000000

\* float("1e-300"): float(input()) returns it for that text; it is above 0 and below
\* every amount of a thousandth or more, and the sum or difference of such an amount
\* and it rounds to the amount
Tiny == 1900000000

\* the place of a number in the order of the floats
Rank(x) == IF x = Tiny THEN 1 ELSE IF x > 0 THEN x + 1 ELSE x

\* x + y on floats
Add(x, y) ==
    IF x = NaN \/ y = NaN THEN NaN
    ELSE IF x = Infinity \/ y = Infinity THEN Infinity
    ELSE IF x = Tiny THEN (IF y = 0 THEN Tiny ELSE y)
    ELSE IF y = Tiny THEN (IF x = 0 THEN Tiny ELSE x)
    ELSE x + y

\* x - y on floats, y not above x
Sub(x, y) ==
    IF x = NaN \/ y = NaN THEN NaN
    ELSE IF x = Infinity THEN (IF y = Infinity THEN NaN ELSE Infinity)
    ELSE IF y = Tiny THEN (IF x = Tiny THEN 0 ELSE x)
    ELSE x - y

\* the comparisons of floats: x <= y, x < y, x >= y, x > y
Le(x, y) == x # NaN /\ y # NaN /\ Rank(x) <= Rank(y)

Lt(x, y) == x # NaN /\ y # NaN /\ Rank(x) < Rank(y)

Ge(x, y) == x # NaN /\ y # NaN /\ Rank(x) >= Rank(y)

Gt(x, y) == x # NaN /\ y # NaN /\ Rank(x) > Rank(y)

AccountWidth == 5

NameWidth == 20

HolderMax == 20

MiscWidth == 4

EndMarkerPad == 38

None == <<"None">>

valid_companies == { <<"E", "C">>, <<"C", "Q">>, <<"F", "I">> }

----------------------------------------------------------------------------
(* Text helpers: str.strip, str.zfill, str.lower, str.upper, int(), "%05d" *)

DigitChars == <<"0", "1", "2", "3", "4", "5", "6", "7", "8", "9">>

IsDigit(c) == \E i \in 1..10 : DigitChars[i] = c

DigitValue(c) == (CHOOSE i \in 1..10 : DigitChars[i] = c) - 1

RECURSIVE Str(_)
Str(n) == IF n < 10 THEN <<DigitChars[n + 1]>>
          ELSE Str(n \div 10) \o <<DigitChars[(n % 10) + 1]>>

RECURSIVE ParseInt(_)
ParseInt(s) == IF s = <<>> THEN 0
               ELSE 10 * ParseInt(SubSeq(s, 1, Len(s) - 1)) + DigitValue(s[Len(s)])

Spaces(n) == [i \in 1..n |-> " "]

RECURSIVE LStrip(_)
LStrip(s) == IF s # <<>> /\ Head(s) = " " THEN LStrip(Tail(s)) ELSE s

RECURSIVE RStrip(_)
RStrip(s) == IF s # <<>> /\ s[Len(s)] = " " THEN RStrip(SubSeq(s, 1, Len(s) - 1)) ELSE s

Strip(s) == RStrip(LStrip(s))

\* str.zfill(w): pads with "0" on the left, after a leading sign
ZFill(s, w) ==
    IF Len(s) >= w THEN s
    ELSE IF s # <<>> /\ Head(s) \in {"+", "-"}
         THEN <<Head(s)>> \o [i \in 1..(w - Len(s)) |-> "0"] \o Tail(s)
         ELSE [i \in 1..(w - Len(s)) |-> "0"] \o s

\* f"{n:0wd}" for n >= 0: at least w digits, never truncated
ZeroPad(n, w) == ZFill(Str(n), w)

\* f"{s:<w}": left-justified, blank-padded, never truncated
LJust(s, w) == IF Len(s) >= w THEN s ELSE s \o Spaces(w - Len(s))

LowerChar(c) == CASE c = "A" -> "a" [] c = "B" -> "b" [] c = "C" -> "c"
                  [] c = "E" -> "e" [] c = "F" -> "f" [] c = "I" -> "i"
                  [] c = "L" -> "l" [] c = "O" -> "o" [] c = "Q" -> "q"
                  [] OTHER -> c

UpperChar(c) == CASE c = "a" -> "A" [] c = "b" -> "B" [] c = "c" -> "C"
                  [] c = "e" -> "E" [] c = "f" -> "F" [] c = "i" -> "I"
                  [] c = "l" -> "L" [] c = "o" -> "O" [] c = "q" -> "Q"
                  [] OTHER -> c

Lower(s) == [i \in 1..Len(s) |-> LowerChar(s[i])]

Upper(s) == [i \in 1..Len(s) |-> UpperChar(s[i])]

FilterDigits(s) == SelectSeq(s, IsDigit)

----------------------------------------------------------------------------
(* TransactionLog: the record codec *)

\* _format_account: digits only, int(), "%05d"
_format_account(account_number) ==
    LET digits == FilterDigits(account_number)
        num    == IF digits # <<>> THEN ParseInt(digits) ELSE 0
    IN  ZeroPad(num, AccountWidth)

\* round() of a non-negative number of hundredths given in thousandths:
\* to nearest, a tie to the even neighbour
RoundCents(mills) ==
    LET q == mills \div 10
        r == mills % 10
    IN  IF r > 5 \/ (r = 5 /\ q % 2 = 1) THEN q + 1 ELSE q

\* _format_amount, amount >= 0
_format_amount(amount) ==
    LET whole    == IF amount = Tiny THEN 0 ELSE amount
        dollars0 == whole \div Unit
        cents0   == RoundCents(whole - dollars0 * Unit)
        dollars  == IF cents0 >= 100 THEN dollars0 + 1 ELSE dollars0
        cents    == IF cents0 >= 100 THEN cents0 - 100 ELSE cents0
    IN  ZeroPad(dollars, 5) \o <<".">> \o ZeroPad(cents, 2)

\* int(amt_float) raises OverflowError for float("inf") and ValueError for
\* float("nan")
format_raises(amount) == amount = Infinity \/ amount = NaN

ZeroAmount == <<"0", "0", "0", "0", "0", ".", "0", "0">>

\* f"{code} {name:<20} {acc} {amt} {misc}" with name = ""
FormatLine(code, acc, amt, misc) ==
    code \o <<" ">> \o LJust(<<>>, NameWidth) \o <<" ">> \o acc \o <<" ">> \o amt
         \o <<" ">> \o misc

withdrawal_line(account_number, amount) ==
    FormatLine(<<"0", "1">>, _format_account(account_number), _format_amount(amount),
               Spaces(MiscWidth))

\* mutant: the two account numbers change places
transfer_line_swapped(from_account, to_account, amount) ==
    FormatLine(<<"0", "2">>, _format_account(to_account), _format_amount(amount),
               _format_account(from_account))

transfer_line(from_account, to_account, amount) ==
    FormatLine(<<"0", "2">>, _format_account(from_account), _format_amount(amount),
               _format_account(to_account))

paybill_line(account_number, amount, company_code) ==
    FormatLine(<<"0", "3">>, _format_account(account_number), _format_amount(amount),
               LJust(company_code, MiscWidth))

deposit_line(account_number, amount) ==
    FormatLine(<<"0", "4">>, _format_account(account_number), _format_amount(amount),
               Spaces(MiscWidth))

create_line(account_number, amount) ==
    FormatLine(<<"0", "5">>, _format_account(account_number), _format_amount(amount),
               <<"S", "P", " ", " ">>)

delete_line(account_number) ==
    FormatLine(<<"0", "6">>, _format_account(account_number), ZeroAmount, Spaces(MiscWidth))

disable_line(account_number) ==
    FormatLine(<<"0", "7">>, _format_account(account_number), ZeroAmount, Spaces(MiscWidth))

change_plan_line(account_number) ==
    FormatLine(<<"0", "8">>, _format_account(account_number), ZeroAmount,
               <<"N", "P", " ", " ">>)

end_marker == <<"0", "0">> \o Spaces(EndMarkerPad)

----------------------------------------------------------------------------
(* Inputs typed at the prompts *)

Al == <<"A", "l">>

al == <<"a", "l">>

Bo == <<"B", "o">>

Cy == <<"C", "y">>

Zed == <<"Z">>

\* float(input()): a number, or text float() rejects with ValueError
Parsed(v) == [ok |-> TRUE, v |-> v]

Unparsable == [ok |-> FALSE, v |-> 0]

\* account numbers as typed, short forms ("1" for 00001)
Typed(i) == Str(i)

\* One run of the program is driven by one script: the commands the operator uses
\* and the values typed at the prompts.  Every interleaving of a script's commands
\* and values is a behaviour.
Script(cmds, types, users, accs, amts) ==
    [cmds |-> cmds, types |-> types, users |-> users, accs |-> accs, amts |-> amts]

Invalid == {Unparsable, Parsed(0)}

Session == {"login", "logout"}

ScriptList ==
    << \* a holder at the teller: withdrawals against the $500 limit
       Script(Session \cup {"withdrawal"}, {"standard"}, {Al},
              {Typed(0), Typed(1)}, Invalid \cup {Parsed(200000), Parsed(300000)}),
       \* a holder's transfers against the $1000 limit
       Script(Session \cup {"transfer"}, {"standard"}, {Al},
              {Typed(0), Typed(1)}, Invalid \cup {Parsed(500000), Parsed(1000000)}),
       \* a holder's bill payments against the $2000 limit
       Script(Session \cup {"paybill"}, {"standard"}, {Al},
              {Typed(0)}, Invalid \cup {Parsed(1000000), Parsed(1500000)}),
       \* a holder with $700: amounts within the limits and above the balance
       Script(Session \cup {"deposit", "withdrawal", "transfer", "paybill"},
              {"standard"}, {Bo},
              {Typed(1)}, {Parsed(500000), Parsed(1000000)}),
       \* the administrator moving money
       Script(Session \cup {"withdrawal", "transfer", "paybill"}, {"admin"}, {Al},
              {Typed(0), Typed(1)}, {Parsed(1500000)}),
       \* deposits and withdrawals over several sessions, then quit
       Script(Session \cup {"deposit", "withdrawal", "quit", "unknown"},
              {"standard", "admin", "manager"}, {Al, al, Zed},
              {Typed(0), Typed(2)},
              Invalid \cup {Parsed(1999), Parsed(500000), Parsed(Infinity), Parsed(NaN)}),
       \* the administrator opening and closing accounts
       Script(Session \cup {"create", "delete"}, {"admin"},
              {Al, Bo}, {Typed(0), Typed(1), Typed(3)}, {}),
       \* the administrator's changes to accounts
       Script(Session \cup {"delete", "disable", "changeplan"}, {"admin"},
              {Al, al, Bo}, {Typed(0), Typed(1), Typed(3)}, {}),
       \* the administrator deletes an account and goes on using its number
       Script(Session \cup {"delete", "transfer", "deposit", "disable"}, {"admin"},
              {Bo}, {Typed(1)}, {Parsed(500000)}),
       \* every command, by a holder and by nobody
       Script(Session \cup {"withdrawal", "transfer", "paybill", "deposit", "create",
                            "delete", "disable", "changeplan"}, {"standard"}, {Al},
              {Typed(1), Typed(2), Typed(4)}, {Parsed(0), Parsed(500000)}),
       \* transfers into and out of a disabled account, by a holder and by the
       \* administrator
       Script(Session \cup {"transfer"}, {"standard", "admin"}, {Al},
              {Typed(0), Typed(2)}, {Parsed(500000)}) >>

Scripts == {ScriptList[i] : i \in DOMAIN ScriptList}

Commands == script.cmds

SessionTypeInputs == script.types

NameInputs == script.users

AccountInputs == script.accs

AmountInputs == script.amts

CreateNameInputs == {Bo, <<>>}

BalanceInputs == {Unparsable, Parsed(-1000), Parsed(500000), Parsed(100000000),
                  Parsed(Infinity), Parsed(NaN)}

CompanyInputs == { <<"e", "c">>, <<"X", "X">> }

----------------------------------------------------------------------------
(* BankAccount *)

\* BankAccount.__init__
BankAccount(holder_name, balance, status, plan) ==
    [holder_name |-> SubSeq(Strip(holder_name), 1,
                            IF Len(Strip(holder_name)) < HolderMax
                            THEN Len(Strip(holder_name)) ELSE HolderMax),
     balance     |-> balance,
     status      |-> IF status \in {"A", "D"} THEN status ELSE "A",
     plan        |-> IF plan \in {"SP", "NP"} THEN plan ELSE "SP"]

\* BankAccount.withdraw: its return value; the balance is debited exactly when TRUE
withdraw(account, amount) ==
    IF Le(amount, 0) THEN FALSE
    ELSE Ge(account.balance, amount)

\* BankAccount.deposit: its return value; the balance is credited exactly when TRUE
deposit(account, amount) == ~Le(amount, 0)

\* mutant: the holder's name is compared without regard to letter case
is_valid_for_any_case(account, user) ==
    IF account.status # "A" THEN FALSE
    ELSE IF user = None THEN FALSE
    ELSE Lower(Strip(account.holder_name)) = Lower(Strip(user))

\* BankAccount.is_valid_for
is_valid_for(account, user) ==
    IF account.status # "A" THEN FALSE
    ELSE IF user = None THEN FALSE
    ELSE Strip(account.holder_name) = Strip(user)

----------------------------------------------------------------------------
(* AccountManager *)

\* AccountManager.user_exists: any account, deleted ones included, in any letter case
user_exists(user_name) ==
    \E n \in DOMAIN accounts :
        Lower(Strip(accounts[n].holder_name)) = Lower(Strip(user_name))

\* mutant: the lookup does not consult the tombstones
get_account_ignoring_tombstones(account_number) ==
    LET normalized_number == ZFill(Strip(account_number), AccountWidth)
    IN  IF normalized_number \in DOMAIN accounts THEN normalized_number
        ELSE None

\* AccountManager.get_account: the key of the account, or None
get_account(account_number) ==
    LET normalized_number == ZFill(Strip(account_number), AccountWidth)
    IN  IF normalized_number \in deleted_set THEN None
        ELSE IF normalized_number \in DOMAIN accounts THEN normalized_number
        ELSE None

candidate(i) == ZFill(Str(i), AccountWidth)

Free(i) == candidate(i) \notin DOMAIN accounts /\ candidate(i) \notin deleted_set

\* mutant: the scan runs from the top of the number space
_generate_highest_account_number ==
    IF \E i \in 0..(NumberSpace - 1) : Free(i)
    THEN candidate(CHOOSE i \in 0..(NumberSpace - 1) :
                      Free(i) /\ \A j \in (i + 1)..(NumberSpace - 1) : ~Free(j))
    ELSE None

\* AccountManager._generate_unique_account_number: None stands for the RuntimeError
_generate_unique_account_number ==
    IF \E i \in 0..(NumberSpace - 1) : Free(i)
    THEN candidate(CHOOSE i \in 0..(NumberSpace - 1) :
                      Free(i) /\ \A j \in 0..(i - 1) : ~Free(j))
    ELSE None

\* AccountManager.create_account: balance = max(0.0, min(balance, 99999.99))
clamp(balance) ==
    LET low == IF Lt(MAX_BALANCE, balance) THEN MAX_BALANCE ELSE balance
    IN  IF Gt(low, 0) THEN low ELSE 0

----------------------------------------------------------------------------
(* SessionManager *)

is_logged_in == logged_in

is_admin == session_mode = "admin"

\* mutants of the limit checks: no limit at all; no exemption for the administrator
can_withdraw_unlimited(amount) == TRUE

\* mutant: the amount alone is held against the limit, not the session's total
can_withdraw_amount_only(amount) ==
    IF session_mode = "admin" THEN TRUE
    ELSE ~Gt(amount, STANDARD_WITHDRAWAL_LIMIT)

can_withdraw_no_exemption(amount) ==
    ~Gt(Add(withdrawal_total, amount), STANDARD_WITHDRAWAL_LIMIT)

can_pay_bill_no_exemption(amount) ==
    ~Gt(Add(paybill_total, amount), STANDARD_PAYBILL_LIMIT)

can_withdraw(amount) ==
    IF session_mode = "admin" THEN TRUE
    ELSE ~Gt(Add(withdrawal_total, amount), STANDARD_WITHDRAWAL_LIMIT)

can_transfer(amount) ==
    IF session_mode = "admin" THEN TRUE
    ELSE ~Gt(Add(transfer_total, amount), STANDARD_TRANSFER_LIMIT)

can_pay_bill(amount) ==
    IF session_mode = "admin" THEN TRUE
    ELSE ~Gt(Add(paybill_total, amount), STANDARD_PAYBILL_LIMIT)

start_standard_session(user_name) ==
    /\ logged_in' = TRUE
    /\ session_mode' = "standard"
    /\ current_user_name' = user_name
    /\ withdrawal_total' = 0
    /\ transfer_total' = 0
    /\ paybill_total' = 0

start_admin_session ==
    /\ logged_in' = TRUE
    /\ session_mode' = "admin"
    /\ current_user_name' = None
    /\ withdrawal_total' = 0
    /\ transfer_total' = 0
    /\ paybill_total' = 0

\* mutant: the end of a session leaves the running totals
end_session_keeps_totals ==
    /\ logged_in' = FALSE
    /\ session_mode' = "None"
    /\ current_user_name' = None
    /\ UNCHANGED totals

end_session ==
    /\ logged_in' = FALSE
    /\ session_mode' = "None"
    /\ current_user_name' = None
    /\ withdrawal_total' = 0
    /\ transfer_total' = 0
    /\ paybill_total' = 0

----------------------------------------------------------------------------
(* What a command printed: "ok", or the kind of the error message *)

Outcome(cmd, kind) == last' = [cmd |-> cmd, outcome |-> kind]

\* an early return after an error message: nothing but the message
Reject(cmd, kind) ==
    /\ Outcome(cmd, kind)
    /\ UNCHANGED <<session_vars, ledger_vars, transactions, file, session_first, running>>

\* the command loop reads one command, one the script uses
Prompt(cmd) ==
    /\ running
    /\ cmd \in Commands
    /\ script' = script

\* room in the model for k more records
Room(k) == Len(transactions) + k <= MaxLog

----------------------------------------------------------------------------
(* The state after AccountManager.load_from_file and the constructors *)

Init ==
    /\ logged_in = FALSE
    /\ session_mode = "None"
    /\ current_user_name = None
    /\ withdrawal_total = 0
    /\ transfer_total = 0
    /\ paybill_total = 0
    /\ accounts = (candidate(0) :> BankAccount(Al, 3000000, "A", "SP"))
               @@ (candidate(1) :> BankAccount(Bo, 700000, "A", "SP"))
               @@ (candidate(2) :> BankAccount(Cy, 100000, "D", "SP"))
    /\ deleted_set = {}
    /\ transactions = <<>>
    /\ file = <<>>
    /\ session_first = 0
    /\ last = [cmd |-> "start", outcome |-> "ok"]
    /\ running = TRUE
    /\ script \in Scripts

----------------------------------------------------------------------------
(* TransactionProcessor: withdrawal *)

\* mutant: the balance is looked at before the session limit
withdrawal_check_funds_first(acc_num, amt) ==
    LET account == get_account(acc_num) IN
    IF ~is_logged_in THEN "NotAuthenticated"
    ELSE IF account = None THEN "AccountNotFound"
    ELSE IF accounts[account].status # "A" THEN "AccountDisabled"
    ELSE IF ~is_admin /\ ~is_valid_for(accounts[account], current_user_name) THEN "NotOwner"
    ELSE IF ~amt.ok THEN "InvalidInput"
    ELSE IF Le(amt.v, 0) THEN "InvalidInput"
    ELSE IF ~withdraw(accounts[account], amt.v) THEN "InsufficientFunds"
    ELSE IF ~can_withdraw(amt.v) THEN "LimitExceeded"
    ELSE "ok"

\* the checks of process_withdrawal in the order of its early returns
withdrawal_check(acc_num, amt) ==
    LET account == get_account(acc_num) IN
    IF ~is_logged_in THEN "NotAuthenticated"
    ELSE IF account = None THEN "AccountNotFound"
    ELSE IF accounts[account].status # "A" THEN "AccountDisabled"
    ELSE IF ~is_admin /\ ~is_valid_for(accounts[account], current_user_name) THEN "NotOwner"
    ELSE IF ~amt.ok THEN "InvalidInput"
    ELSE IF Le(amt.v, 0) THEN "InvalidInput"
    ELSE IF ~can_withdraw(amt.v) THEN "LimitExceeded"
    ELSE "ok"

\* "Attempt withdrawal": account.withdraw, record_withdrawal, log_withdrawal
withdrawal_commit(acc_num, amount) ==
    LET account == get_account(acc_num) IN
    /\ Room(1)
    /\ accounts' = [accounts EXCEPT ![account].balance = Sub(@, amount)]
    /\ withdrawal_total' = Add(withdrawal_total, amount)
    /\ transactions' = Append(transactions, withdrawal_line(acc_num, amount))
    /\ Outcome("withdrawal", "ok")
    /\ UNCHANGED <<logged_in, session_mode, current_user_name, transfer_total,
                   paybill_total, deleted_set, file, session_first, running>>

withdrawal_execute(acc_num, amount) ==
    IF withdraw(accounts[get_account(acc_num)], amount)
    THEN withdrawal_commit(acc_num, amount)
    ELSE Reject("withdrawal", "InsufficientFunds")

process_withdrawal ==
    /\ Prompt("withdrawal")
    /\ \E acc_num \in AccountInputs, amt \in AmountInputs :
          LET kind == withdrawal_check(acc_num, amt) IN
          IF kind # "ok" THEN Reject("withdrawal", kind)
          ELSE withdrawal_execute(acc_num, amt.v)

----------------------------------------------------------------------------
(* TransactionProcessor: transfer *)

\* mutant: both accounts are looked up before the source's owner is checked
transfer_check_existence_first(from_acc, to_acc, amt) ==
    LET account_from == get_account(from_acc)
        account_to   == get_account(to_acc)
    IN
    IF ~is_logged_in THEN "NotAuthenticated"
    ELSE IF account_from = None THEN "AccountNotFound"
    ELSE IF account_to = None THEN "AccountNotFound"
    ELSE IF accounts[account_from].status # "A" THEN "AccountDisabled"
    ELSE IF ~is_admin /\ ~is_valid_for(accounts[account_from], current_user_name)
         THEN "NotOwner"
    ELSE IF accounts[account_to].status # "A" THEN "AccountDisabled"
    ELSE IF ~amt.ok THEN "InvalidInput"
    ELSE IF Le(amt.v, 0) THEN "InvalidInput"
    ELSE IF ~can_transfer(amt.v) THEN "LimitExceeded"
    ELSE "ok"

\* mutant: the status of the destination account is not looked at
transfer_check_dest_unchecked(from_acc, to_acc, amt) ==
    LET account_from == get_account(from_acc)
        account_to   == get_account(to_acc)
    IN
    IF ~is_logged_in THEN "NotAuthenticated"
    ELSE IF account_from = None THEN "AccountNotFound"
    ELSE IF accounts[account_from].status # "A" THEN "AccountDisabled"
    ELSE IF ~is_admin /\ ~is_valid_for(accounts[account_from], current_user_name)
         THEN "NotOwner"
    ELSE IF account_to = None THEN "AccountNotFound"
    ELSE IF ~amt.ok THEN "InvalidInput"
    ELSE IF Le(amt.v, 0) THEN "InvalidInput"
    ELSE IF ~can_transfer(amt.v) THEN "LimitExceeded"
    ELSE "ok"

transfer_check(from_acc, to_acc, amt) ==
    LET account_from == get_account(from_acc)
        account_to   == get_account(to_acc)
    IN
    IF ~is_logged_in THEN "NotAuthenticated"
    ELSE IF account_from = None THEN "AccountNotFound"
    ELSE IF accounts[account_from].status # "A" THEN "AccountDisabled"
    ELSE IF ~is_admin /\ ~is_valid_for(accounts[account_from], current_user_name)
         THEN "NotOwner"
    ELSE IF account_to = None THEN "AccountNotFound"
    ELSE IF accounts[account_to].status # "A" THEN "AccountDisabled"
    ELSE IF ~amt.ok THEN "InvalidInput"
    ELSE IF Le(amt.v, 0) THEN "InvalidInput"
    ELSE IF ~can_transfer(amt.v) THEN "LimitExceeded"
    ELSE "ok"

\* the records log_transfer appends for one transfer
transfer_records(from_acc, to_acc, amount) == <<transfer_line(from_acc, to_acc, amount)>>

\* mutant: the credit is computed from the balance before the debit
transfer_commit_parallel(from_acc, to_acc, amount) ==
    LET account_from == get_account(from_acc)
        account_to   == get_account(to_acc)
        debited      == [accounts EXCEPT ![account_from].balance = Sub(@, amount)]
    IN
    /\ Room(1)
    /\ accounts' = [debited EXCEPT
                        ![account_to].balance = Add(accounts[account_to].balance, amount)]
    /\ transfer_total' = Add(transfer_total, amount)
    /\ transactions' = transactions \o transfer_records(from_acc, to_acc, amount)
    /\ Outcome("transfer", "ok")
    /\ UNCHANGED <<logged_in, session_mode, current_user_name, withdrawal_total,
                   paybill_total, deleted_set, file, session_first, running>>

\* "Attempt transfer": account_from.withdraw, account_to.deposit, record_transfer,
\* log_transfer; the two balance updates are sequential (the accounts may be the same)
transfer_commit(from_acc, to_acc, amount) ==
    LET account_from == get_account(from_acc)
        account_to   == get_account(to_acc)
        debited      == [accounts EXCEPT ![account_from].balance = Sub(@, amount)]
    IN
    /\ Room(Len(transfer_records(from_acc, to_acc, amount)))
    /\ accounts' = IF deposit(debited[account_to], amount)
                   THEN [debited EXCEPT ![account_to].balance = Add(@, amount)]
                   ELSE debited
    /\ transfer_total' = Add(transfer_total, amount)
    /\ transactions' = transactions \o transfer_records(from_acc, to_acc, amount)
    /\ Outcome("transfer", "ok")
    /\ UNCHANGED <<logged_in, session_mode, current_user_name, withdrawal_total,
                   paybill_total, deleted_set, file, session_first, running>>

\* mutant: the transfer is counted toward the limit before the debit is attempted
transfer_execute_records_first(from_acc, to_acc, amount) ==
    IF withdraw(accounts[get_account(from_acc)], amount)
    THEN transfer_commit(from_acc, to_acc, amount)
    ELSE /\ transfer_total' = Add(transfer_total, amount)
         /\ Outcome("transfer", "InsufficientFunds")
         /\ UNCHANGED <<logged_in, session_mode, current_user_name, withdrawal_total,
                        paybill_total, ledger_vars, transactions, file, session_first,
                        running>>

\* mutant: the destination is credited whether or not the debit succeeded
transfer_execute_credits_anyway(from_acc, to_acc, amount) ==
    IF withdraw(accounts[get_account(from_acc)], amount)
    THEN transfer_commit(from_acc, to_acc, amount)
    ELSE /\ accounts' = [accounts EXCEPT ![get_account(to_acc)].balance = Add(@, amount)]
         /\ Outcome("transfer", "InsufficientFunds")
         /\ UNCHANGED <<session_vars, deleted_set, transactions, file, session_first,
                        running>>

transfer_execute(from_acc, to_acc, amount) ==
    IF withdraw(accounts[get_account(from_acc)], amount)
    THEN transfer_commit(from_acc, to_acc, amount)
    ELSE Reject("transfer", "InsufficientFunds")

process_transfer ==
    /\ Prompt("transfer")
    /\ \E from_acc \in AccountInputs, to_acc \in AccountInputs, amt \in AmountInputs :
          LET kind == transfer_check(from_acc, to_acc, amt) IN
          IF kind # "ok" THEN Reject("transfer", kind)
          ELSE transfer_execute(from_acc, to_acc, amt.v)

----------------------------------------------------------------------------
(* TransactionProcessor: paybill *)

paybill_check(acc_num, company, amt) ==
    LET account == get_account(acc_num) IN
    IF ~is_logged_in THEN "NotAuthenticated"
    ELSE IF account = None THEN "AccountNotFound"
    ELSE IF accounts[account].status # "A" THEN "AccountDisabled"
    ELSE IF ~is_admin /\ ~is_valid_for(accounts[account], current_user_name) THEN "NotOwner"
    ELSE IF company \notin valid_companies THEN "InvalidInput"
    ELSE IF ~amt.ok THEN "InvalidInput"
    ELSE IF Le(amt.v, 0) THEN "InvalidInput"
    ELSE IF ~can_pay_bill(amt.v) THEN "LimitExceeded"
    ELSE "ok"

\* "Attempt payment": account.withdraw, record_pay_bill, log_paybill
paybill_commit(acc_num, company, amount) ==
    LET account == get_account(acc_num) IN
    /\ Room(1)
    /\ accounts' = [accounts EXCEPT ![account].balance = Sub(@, amount)]
    /\ paybill_total' = Add(paybill_total, amount)
    /\ transactions' = Append(transactions, paybill_line(acc_num, amount, company))
    /\ Outcome("paybill", "ok")
    /\ UNCHANGED <<logged_in, session_mode, current_user_name, withdrawal_total,
                   transfer_total, deleted_set, file, session_first, running>>

paybill_execute(acc_num, company, amount) ==
    IF withdraw(accounts[get_account(acc_num)], amount)
    THEN paybill_commit(acc_num, company, amount)
    ELSE Reject("paybill", "InsufficientFunds")

\* the company code is read as input().strip().upper()
process_paybill ==
    /\ Prompt("paybill")
    /\ \E acc_num \in AccountInputs, typed \in CompanyInputs, amt \in AmountInputs :
          LET company == Upper(Strip(typed))
              kind    == paybill_check(acc_num, company, amt)
          IN
          IF kind # "ok" THEN Reject("paybill", kind)
          ELSE paybill_execute(acc_num, company, amt.v)

----------------------------------------------------------------------------
(* TransactionProcessor: deposit *)

\* mutant: a deposit is taken without a session
deposit_check_no_login(acc_num, amt) ==
    LET account == get_account(acc_num) IN
    IF account = None THEN "AccountNotFound"
    ELSE IF accounts[account].status # "A" THEN "AccountDisabled"
    ELSE IF ~amt.ok THEN "InvalidInput"
    ELSE IF Le(amt.v, 0) THEN "InvalidInput"
    ELSE "ok"

deposit_check(acc_num, amt) ==
    LET account == get_account(acc_num) IN
    IF ~is_logged_in THEN "NotAuthenticated"
    ELSE IF account = None THEN "AccountNotFound"
    ELSE IF accounts[account].status # "A" THEN "AccountDisabled"
    ELSE IF ~amt.ok THEN "InvalidInput"
    ELSE IF Le(amt.v, 0) THEN "InvalidInput"
    ELSE "ok"

\* the exception a command lets escape is caught nowhere (main catches EOFError and
\* KeyboardInterrupt only): the process ends, its memory as the command left it
Crash(cmd) ==
    /\ running' = FALSE
    /\ Outcome(cmd, "Crash")

\* account.deposit, then log_deposit, which raises when it cannot format the amount
deposit_execute(acc_num, amount) ==
    LET account  == get_account(acc_num)
        credited == IF deposit(accounts[account], amount)
                    THEN [accounts EXCEPT ![account].balance = Add(@, amount)]
                    ELSE accounts
    IN
    IF format_raises(amount)
    THEN /\ accounts' = credited
         /\ Crash("deposit")
         /\ UNCHANGED <<session_vars, deleted_set, transactions, file, session_first>>
    ELSE /\ Room(1)
         /\ accounts' = credited
         /\ transactions' = Append(transactions, deposit_line(acc_num, amount))
         /\ Outcome("deposit", "ok")
         /\ UNCHANGED <<session_vars, deleted_set, file, session_first, running>>

process_deposit ==
    /\ Prompt("deposit")
    /\ \E acc_num \in AccountInputs, amt \in AmountInputs :
          LET kind == deposit_check(acc_num, amt) IN
          IF kind # "ok" THEN Reject("deposit", kind)
          ELSE deposit_execute(acc_num, amt.v)

----------------------------------------------------------------------------
(* TransactionProcessor: create, delete, disable, changeplan (admin only) *)

\* mutant: create without the role check
create_check_no_role(name, balance) ==
    IF ~is_logged_in THEN "NotAuthenticated"
    ELSE IF name = <<>> THEN "InvalidInput"
    ELSE IF ~balance.ok THEN "InvalidInput"
    ELSE IF Lt(balance.v, 0) THEN "InvalidInput"
    ELSE "ok"

create_check(name, balance) ==
    IF ~is_logged_in THEN "NotAuthenticated"
    ELSE IF ~is_admin THEN "Forbidden"
    ELSE IF name = <<>> THEN "InvalidInput"
    ELSE IF ~balance.ok THEN "InvalidInput"
    ELSE IF Lt(balance.v, 0) THEN "InvalidInput"
    ELSE "ok"

\* the amount log_create is given
create_logged_amount(balance) == balance

\* create_account, which raises RuntimeError when no number is left, then log_create,
\* which raises when it cannot format the amount
create_execute(name, balance) ==
    LET new_number == _generate_unique_account_number
        created    == (new_number :> BankAccount(name, clamp(balance), "A", "SP"))
                      @@ accounts
    IN
    IF new_number = None
    THEN /\ Crash("create")
         /\ UNCHANGED <<session_vars, ledger_vars, transactions, file, session_first>>
    ELSE IF format_raises(create_logged_amount(balance))
    THEN /\ accounts' = created
         /\ Crash("create")
         /\ UNCHANGED <<session_vars, deleted_set, transactions, file, session_first>>
    ELSE /\ Room(1)
         /\ accounts' = created
         /\ transactions' = Append(transactions,
                                   create_line(new_number, create_logged_amount(balance)))
         /\ Outcome("create", "ok")
         /\ UNCHANGED <<session_vars, deleted_set, file, session_first, running>>

process_create ==
    /\ Prompt("create")
    /\ \E typed \in CreateNameInputs, balance \in BalanceInputs :
          LET name == Strip(typed)
              kind == create_check(name, balance)
          IN
          IF kind # "ok" THEN Reject("create", kind)
          ELSE create_execute(name, balance.v)

\* mutant: delete, disable and changeplan without the check of the holder's name
admin_check_no_name(name, acc_num) ==
    LET account == get_account(acc_num) IN
    IF ~is_logged_in THEN "NotAuthenticated"
    ELSE IF ~is_admin THEN "Forbidden"
    ELSE IF account = None THEN "AccountNotFound"
    ELSE "ok"

\* the checks delete, disable and changeplan share
admin_check(name, acc_num) ==
    LET account == get_account(acc_num) IN
    IF ~is_logged_in THEN "NotAuthenticated"
    ELSE IF ~is_admin THEN "Forbidden"
    ELSE IF account = None THEN "AccountNotFound"
    ELSE IF accounts[account].holder_name # name THEN "NameMismatch"
    ELSE "ok"

\* AccountManager.delete_account: the tombstones after it
delete_account(account_number) ==
    LET normalized_number == ZFill(Strip(account_number), AccountWidth) IN
    IF normalized_number \in DOMAIN accounts
    THEN deleted_set \cup {normalized_number}
    ELSE deleted_set

process_delete ==
    /\ Prompt("delete")
    /\ \E typed \in NameInputs, acc_num \in AccountInputs :
          LET name == Strip(typed)
              kind == admin_check(name, acc_num)
          IN
          IF kind # "ok" THEN Reject("delete", kind)
          ELSE /\ Room(1)
               /\ deleted_set' = delete_account(acc_num)
               /\ transactions' = Append(transactions, delete_line(acc_num))
               /\ Outcome("delete", "ok")
               /\ UNCHANGED <<session_vars, accounts, file, session_first, running>>

\* mutant: disable switches the status back and forth
disable_account_toggle(account_number) ==
    LET account == get_account(account_number) IN
    IF account = None THEN accounts
    ELSE [accounts EXCEPT ![account].status = IF @ = "A" THEN "D" ELSE "A"]

\* AccountManager.disable_account: the accounts after it
disable_account(account_number) ==
    LET account == get_account(account_number) IN
    IF account = None THEN accounts
    ELSE [accounts EXCEPT ![account].status = "D"]

process_disable ==
    /\ Prompt("disable")
    /\ \E typed \in NameInputs, acc_num \in AccountInputs :
          LET name == Strip(typed)
              kind == admin_check(name, acc_num)
          IN
          IF kind # "ok" THEN Reject("disable", kind)
          ELSE /\ Room(1)
               /\ accounts' = disable_account(acc_num)
               /\ transactions' = Append(transactions, disable_line(acc_num))
               /\ Outcome("disable", "ok")
               /\ UNCHANGED <<session_vars, deleted_set, file, session_first, running>>

\* AccountManager.change_plan: the accounts after it
change_plan(account_number) ==
    LET account == get_account(account_number) IN
    IF account = None THEN accounts
    ELSE IF accounts[account].plan = "SP" THEN [accounts EXCEPT ![account].plan = "NP"]
    ELSE accounts

\* mutant: changeplan without the check of the current plan
change_plan_check_no_plan(name, acc_num) == admin_check(name, acc_num)

change_plan_check(name, acc_num) ==
    LET kind == admin_check(name, acc_num) IN
    IF kind # "ok" THEN kind
    ELSE IF accounts[get_account(acc_num)].plan # "SP" THEN "WrongPlanState"
    ELSE "ok"

process_change_plan ==
    /\ Prompt("changeplan")
    /\ \E typed \in NameInputs, acc_num \in AccountInputs :
          LET name == Strip(typed)
              kind == change_plan_check(name, acc_num)
          IN
          IF kind # "ok" THEN Reject("changeplan", kind)
          ELSE /\ Room(1)
               /\ accounts' = change_plan(acc_num)
               /\ transactions' = Append(transactions, change_plan_line(acc_num))
               /\ Outcome("changeplan", "ok")
               /\ UNCHANGED <<session_vars, deleted_set, file, session_first, running>>

----------------------------------------------------------------------------
(* Login, logout and the command loop *)

\* mutant: a login during a session starts a new session
handle_login_resets ==
    /\ Prompt("login")
    /\ \E session_type \in SessionTypeInputs, typed \in NameInputs :
          LET user_name == Strip(typed) IN
          IF session_type = "standard"
          THEN IF ~user_exists(user_name) THEN Reject("login", "UnknownUser")
               ELSE /\ start_standard_session(user_name)
                    /\ session_first' = Len(transactions)
                    /\ Outcome("login", "ok")
                    /\ UNCHANGED <<ledger_vars, transactions, file, running>>
          ELSE IF session_type = "admin"
          THEN /\ start_admin_session
               /\ session_first' = Len(transactions)
               /\ Outcome("login", "ok")
               /\ UNCHANGED <<ledger_vars, transactions, file, running>>
          ELSE Reject("login", "InvalidInput")

\* FrontEndApp.handle_login
handle_login ==
    /\ Prompt("login")
    /\ \E session_type \in SessionTypeInputs, typed \in NameInputs :
          LET user_name == Strip(typed) IN
          IF is_logged_in THEN Reject("login", "AlreadyLoggedIn")
          ELSE IF session_type = "standard"
          THEN IF ~user_exists(user_name) THEN Reject("login", "UnknownUser")
               ELSE /\ start_standard_session(user_name)
                    /\ session_first' = Len(transactions)
                    /\ Outcome("login", "ok")
                    /\ UNCHANGED <<ledger_vars, transactions, file, running>>
          ELSE IF session_type = "admin"
          THEN /\ start_admin_session
               /\ session_first' = Len(transactions)
               /\ Outcome("login", "ok")
               /\ UNCHANGED <<ledger_vars, transactions, file, running>>
          ELSE Reject("login", "InvalidInput")

\* TransactionLog.write_to_file when every write succeeds: the file is opened with
\* mode 'w' and holds every stored line, then the end marker
written == transactions \o <<end_marker>>

\* the buffer after write_to_file
buffer_after_write == transactions

\* mutant: a logout whose write fails leaves the session open
process_logout_stuck ==
    /\ Prompt("logout")
    /\ IF ~is_logged_in THEN Reject("logout", "NotAuthenticated")
       ELSE \/ /\ file' = written
               /\ Outcome("logout", "ok")
               /\ transactions' = buffer_after_write
               /\ end_session
               /\ UNCHANGED <<ledger_vars, session_first, running>>
            \/ /\ Outcome("logout", "IOError")
               /\ UNCHANGED <<session_vars, ledger_vars, transactions, file,
                              session_first, running>>

\* TransactionProcessor.process_logout.  A failing open leaves the file as it was; a
\* failing write leaves some of the lines; either way the exception is caught, a
\* message printed, and the session ended.
process_logout ==
    /\ Prompt("logout")
    /\ IF ~is_logged_in THEN Reject("logout", "NotAuthenticated")
       ELSE /\ \/ /\ file' = written
                  /\ Outcome("logout", "ok")
               \/ /\ file' = file
                  /\ Outcome("logout", "IOError")
            /\ transactions' = buffer_after_write
            /\ end_session
            /\ UNCHANGED <<ledger_vars, session_first, running>>

\* dispatch_command: a command it does not know
unknown_command ==
    /\ Prompt("unknown")
    /\ Reject("unknown", "UnknownCommand")

\* "quit", or the end of the input
quit ==
    /\ Prompt("quit")
    /\ running' = FALSE
    /\ Outcome("quit", "ok")
    /\ UNCHANGED <<session_vars, ledger_vars, transactions, file, session_first>>

Next ==
    \/ handle_login
    \/ process_logout
    \/ process_withdrawal
    \/ process_transfer
    \/ process_paybill
    \/ process_deposit
    \/ process_create
    \/ process_delete
    \/ process_disable
    \/ process_change_plan
    \/ unknown_command
    \/ quit

Spec == Init /\ [][Next]_vars

----------------------------------------------------------------------------
(* Properties *)

\* the fields of a stored line, by position
CodeField(line) == SubSeq(line, 1, 2)

AccountField(line) == SubSeq(line, 25, 29)

AmountField(line) == SubSeq(line, 31, 38)

MiscField(line) == SubSeq(line, 40, Len(line))

\* commands and amounts tried in every state, whatever the script types
ProbeAccounts == {Typed(i) : i \in 0..NumberSpace}

ProbeAmounts == {Parsed(v) : v \in {1, 200000, 300000, 500000, 500001, 1000000, 1000001,
                                    1500000, 2000000, 2000001}}

ProbeCompanies == valid_companies

Did(cmd, kind) == last.cmd = cmd /\ last.outcome = kind

LimitedCommands == {"withdrawal", "transfer", "paybill"}

TransactionCommands == {"withdrawal", "transfer", "paybill", "deposit", "create", "delete",
                        "disable", "changeplan"}

\* C1: in a Standard session the running totals never exceed the limits: withdrawals
\* at most $500, transfers at most $1000, bill payments at most $2000.
C1_TotalsWithinLimits ==
    session_mode = "standard" =>
        /\ withdrawal_total <= STANDARD_WITHDRAWAL_LIMIT
        /\ transfer_total <= STANDARD_TRANSFER_LIMIT
        /\ paybill_total <= STANDARD_PAYBILL_LIMIT

\* a Standard session whose withdrawals have used the whole budget, the last command
\* being a withdrawal turned down for the limit
C1_Witness ==
    /\ session_mode = "standard"
    /\ withdrawal_total = STANDARD_WITHDRAWAL_LIMIT
    /\ Did("withdrawal", "LimitExceeded")

\* a withdrawal that passes every earlier check and would take the total above $500
OverWithdrawal(acc_num, amt) ==
    /\ logged_in
    /\ session_mode = "standard"
    /\ get_account(acc_num) # None
    /\ accounts[get_account(acc_num)].status = "A"
    /\ is_valid_for(accounts[get_account(acc_num)], current_user_name)
    /\ amt.ok
    /\ amt.v > 0
    /\ withdrawal_total + amt.v > STANDARD_WITHDRAWAL_LIMIT

C3_AdminNeverLimited ==
    session_mode = "admin" =>
        /\ ~Did("withdrawal", "LimitExceeded")
        /\ ~Did("transfer", "LimitExceeded")
        /\ \A acc_num \in ProbeAccounts, amt \in ProbeAmounts :
              withdrawal_check(acc_num, amt) # "LimitExceeded"
        /\ \A from_acc \in ProbeAccounts, to_acc \in ProbeAccounts, amt \in ProbeAmounts :
              transfer_check(from_acc, to_acc, amt) # "LimitExceeded"

\* an Admin session that has withdrawn more than $500 and transferred more than $1000
C3_Witness ==
    /\ session_mode = "admin"
    /\ withdrawal_total > STANDARD_WITHDRAWAL_LIMIT
    /\ transfer_total > STANDARD_TRANSFER_LIMIT

\* C4 as claimed: in an Admin session a bill payment that would take the session's
\* payments above $2000 is turned down, so no accepted payment leaves the total above
\* $2000.
C4_AdminPaybillLimited ==
    [][(session_mode = "admin" /\ last'.cmd = "paybill" /\ last'.outcome = "ok")
           => paybill_total' <= STANDARD_PAYBILL_LIMIT]_vars

\* C4 as amended: in an Admin session no bill payment is turned down with
\* LimitExceeded; the $2000 limit applies to Standard sessions only.
C4_AdminPaybillNeverLimited ==
    session_mode = "admin" =>
        /\ ~Did("paybill", "LimitExceeded")
        /\ \A acc_num \in ProbeAccounts, company \in ProbeCompanies, amt \in ProbeAmounts :
              paybill_check(acc_num, company, amt) # "LimitExceeded"

\* an Admin session whose accepted bill payments exceed $2000
C4_Witness ==
    /\ session_mode = "admin"
    /\ paybill_total > STANDARD_PAYBILL_LIMIT
    /\ Did("paybill", "ok")

\* C5: a withdrawal, transfer or bill payment that passes the limit check and fails the
\* funds check leaves the three running totals as they were.
C5_FailedFundsKeepBudget ==
    [][(last'.cmd \in LimitedCommands /\ last'.outcome = "InsufficientFunds")
           => UNCHANGED totals]_vars

\* a Standard session in which a command within the budget failed for lack of funds and
\* the same kind of command, for an amount the budget and the balance allow, is accepted
C5_Witness ==
    /\ session_mode = "standard"
    /\ Did("transfer", "InsufficientFunds")
    /\ \E acc_num \in ProbeAccounts, amt \in ProbeAmounts :
          /\ transfer_check(acc_num, acc_num, amt) = "ok"
          /\ withdraw(accounts[get_account(acc_num)], amt.v)

\* C6: a transfer from a source whose balance is below the amount changes neither
\* balance, not the transfer total and not the record buffer; a transfer that is carried
\* out has a source holding at least the amount.
C6_TransferAtomic ==
    [][last'.cmd = "transfer" =>
          \/ /\ last'.outcome # "ok"
             /\ UNCHANGED <<accounts, transfer_total, transactions>>
          \/ /\ last'.outcome = "ok"
             /\ Len(transactions') > Len(transactions)
             /\ AccountField(transactions'[Len(transactions')]) \in DOMAIN accounts
             /\ accounts[AccountField(transactions'[Len(transactions')])].balance
                    >= transfer_total' - transfer_total]_vars

\* a transfer was turned down for lack of funds
C6_Witness == Did("transfer", "InsufficientFunds") /\ transfer_total = 0

Moved(f, t, amount) ==
    LET debited == [accounts EXCEPT ![f].balance = Sub(@, amount)]
    IN  [debited EXCEPT ![t].balance = @ + amount]

C8_LinesAre40 ==
    /\ \A i \in DOMAIN transactions : Len(transactions[i]) = 40
    /\ \A i \in DOMAIN file : Len(file[i]) = 40

\* C9: the file written at a logout holds exactly the records of the session being
\* closed, in order, then one end marker.
C9_FlushedOnce ==
    [][(last'.cmd = "logout" /\ last'.outcome = "ok") =>
          file' = SubSeq(transactions, session_first + 1, Len(transactions))
                  \o <<end_marker>>]_vars

\* C10: a transaction command that fails appends no record, changes no account, creates
\* and tombstones none, and changes no running total.
C10_FailuresChangeNothing ==
    [][(last'.cmd \in TransactionCommands /\ last'.outcome # "ok")
           => UNCHANGED <<accounts, deleted_set, transactions, totals>>]_vars

\* the commands that need a session
SessionCommands == TransactionCommands \cup {"logout"}

\* C11: while no session is open, every withdrawal, transfer, paybill, deposit, create,
\* delete, disable, changeplan and logout is turned down with NotAuthenticated, and no
\* command changes an account, the tombstones, the record buffer or the file.
C11_LoggedOutRejected ==
    [][~logged_in =>
          /\ (last'.cmd \in SessionCommands => last'.outcome = "NotAuthenticated")
          /\ UNCHANGED <<accounts, deleted_set, transactions, file>>]_vars

\* after a logout that wrote the file, a deposit is turned down for want of a session
C11_Witness ==
    /\ ~logged_in
    /\ Len(file) > 1
    /\ Did("deposit", "NotAuthenticated")

AdminCommands == {"create", "delete", "disable", "changeplan"}

\* the codes of the records of create, delete, disable and changeplan
AdminCodes == { <<"0", "5">>, <<"0", "6">>, <<"0", "7">>, <<"0", "8">> }

\* C12: in a Standard session create, delete, disable and changeplan fail with
\* Forbidden; no command of a Standard session creates, tombstones or disables an
\* account or changes a plan, and none appends a record of code 05, 06, 07 or 08.
C12_StandardForbidden ==
    [][session_mode = "standard" =>
          /\ (last'.cmd \in AdminCommands => last'.outcome = "Forbidden")
          /\ DOMAIN accounts' = DOMAIN accounts
          /\ deleted_set' = deleted_set
          /\ \A n \in DOMAIN accounts :
                /\ accounts'[n].status = accounts[n].status
                /\ accounts'[n].plan = accounts[n].plan
          /\ \A i \in DOMAIN transactions' :
                i > Len(transactions) => CodeField(transactions'[i]) \notin AdminCodes]_vars

\* a holder's delete was turned down for the role
C12_Witness ==
    /\ session_mode = "standard"
    /\ Did("delete", "Forbidden")

\* the commands that take money out of an account
DebitCommands == {"withdrawal", "paybill", "transfer"}

\* the account's holder name is the session's user, letter for letter
Owns(n) == accounts[n].holder_name = current_user_name

\* C13: in a Standard session a withdrawal, a bill payment and a transfer out of an
\* active account whose holder name is not, case-sensitively, the current user fail with
\* NotOwner; the account a successful one debits is held by the current user; and the
\* balance of an account not held by the current user never decreases.
C13_OnlyOwnerDebits ==
    /\ [](session_mode = "standard" =>
             \A acc_num \in ProbeAccounts, amt \in ProbeAmounts :
                 LET n == get_account(acc_num) IN
                 (n # None /\ accounts[n].status = "A" /\ ~Owns(n)) =>
                     /\ withdrawal_check(acc_num, amt) = "NotOwner"
                     /\ \A company \in ProbeCompanies :
                           paybill_check(acc_num, company, amt) = "NotOwner"
                     /\ \A to_acc \in ProbeAccounts :
                           transfer_check(acc_num, to_acc, amt) = "NotOwner")
    /\ [][session_mode = "standard" =>
             /\ (last'.cmd \in DebitCommands /\ last'.outcome = "ok") =>
                    /\ Len(transactions') = Len(transactions) + 1
                    /\ AccountField(transactions'[Len(transactions')]) \in DOMAIN accounts
                    /\ Owns(AccountField(transactions'[Len(transactions')]))
             /\ \A n \in DOMAIN accounts :
                    ~Owns(n) => ~Lt(accounts'[n].balance, accounts[n].balance)]_vars

\* a session opened under the name "al" was refused a withdrawal from Al's account
C13_Witness ==
    /\ session_mode = "standard"
    /\ current_user_name = al
    /\ accounts[candidate(0)].holder_name = Al
    /\ Did("withdrawal", "NotOwner")

\* C14: in an open session a deposit of an amount above 0 to an existing active account
\* succeeds: that account's balance grows by the amount, exactly one record of code 04 is
\* appended, and the running totals and every other account are unchanged.
C14_DepositAlwaysSucceeds ==
    [][(/\ logged_in
        /\ last'.cmd = "deposit"
        /\ last'.outcome \notin {"AccountNotFound", "AccountDisabled", "InvalidInput"}
        /\ \A n \in DOMAIN accounts' : accounts'[n].balance # NaN) =>
          /\ last'.outcome = "ok"
          /\ UNCHANGED totals
          /\ Len(transactions') = Len(transactions) + 1
          /\ CodeField(transactions'[Len(transactions')]) = <<"0", "4">>
          /\ \E n \in DOMAIN accounts :
                /\ AccountField(transactions'[Len(transactions')]) = n
                /\ Gt(accounts'[n].balance, accounts[n].balance)
                /\ accounts' = [accounts EXCEPT ![n].balance = accounts'[n].balance]]_vars

\* C15: a create that adds an account gives it the lowest number of the number space
\* that is neither an account's number nor a tombstone; a successful create adds one
\* account, leaves every other account as it was, and records the new number.
C15_LowestUnusedNumber ==
    [][last'.cmd = "create" =>
          /\ DOMAIN accounts' # DOMAIN accounts =>
                \E i \in 0..(NumberSpace - 1) :
                    /\ DOMAIN accounts' = DOMAIN accounts \cup {candidate(i)}
                    /\ candidate(i) \notin DOMAIN accounts
                    /\ candidate(i) \notin deleted_set
                    /\ \A j \in 0..(i - 1) :
                          candidate(j) \in DOMAIN accounts \cup deleted_set
          /\ last'.outcome = "ok" =>
                /\ DOMAIN accounts' # DOMAIN accounts
                /\ \A n \in DOMAIN accounts : accounts'[n] = accounts[n]
                /\ AccountField(transactions'[Len(transactions')])
                       \in DOMAIN accounts' \ DOMAIN accounts]_vars

\* after a delete, a create was given a number above the deleted one, two numbers
\* being free
C15_Witness ==
    /\ Did("create", "ok")
    /\ deleted_set # {}
    /\ candidate(NumberSpace - 2) \in DOMAIN accounts
    /\ candidate(NumberSpace - 1) \notin DOMAIN accounts
    /\ \A n \in deleted_set : n # candidate(NumberSpace - 2)

\* C16: when no number of the number space is free, a create that passes the checks of
\* its inputs fails with CapacityExhausted: ledger, session and record buffer are
\* unchanged and the command loop goes on.
C16_CapacityRecoverable ==
    [][(/\ last'.cmd = "create"
        /\ is_admin
        /\ _generate_unique_account_number = None
        /\ last'.outcome # "InvalidInput") =>
          /\ last'.outcome = "CapacityExhausted"
          /\ running'
          /\ UNCHANGED <<session_vars, ledger_vars, transactions>>]_vars

ProbeNames == {Al, Bo, Cy}

\* C17: a plan only moves from Student to NonStudent.  No command takes an account off
\* the NonStudent plan; a changeplan on a NonStudent account does not succeed, and fails
\* with WrongPlanState when the name matches; a successful changeplan moves one Student
\* account to NonStudent and appends one record of code 08 for it; a changeplan that
\* fails changes no account and appends nothing.
C17_PlanOneWay ==
    /\ [](is_admin =>
             \A name \in ProbeNames, acc_num \in ProbeAccounts :
                 LET n == get_account(acc_num) IN
                 (n # None /\ accounts[n].plan = "NP") =>
                     /\ change_plan_check(name, acc_num) # "ok"
                     /\ accounts[n].holder_name = name =>
                            change_plan_check(name, acc_num) = "WrongPlanState")
    /\ [][/\ \A n \in DOMAIN accounts :
                accounts[n].plan = "NP" => accounts'[n].plan = "NP"
          /\ (last'.cmd = "changeplan" /\ last'.outcome = "ok") =>
                /\ Len(transactions') = Len(transactions) + 1
                /\ SubSeq(transactions', 1, Len(transactions)) = transactions
                /\ CodeField(transactions'[Len(transactions')]) = <<"0", "8">>
                /\ \E n \in DOMAIN accounts :
                      /\ accounts[n].plan = "SP"
                      /\ accounts' = [accounts EXCEPT ![n].plan = "NP"]
                      /\ AccountField(transactions'[Len(transactions')]) = n
          /\ (last'.cmd = "changeplan" /\ last'.outcome # "ok") =>
                UNCHANGED <<accounts, deleted_set, transactions>>]_vars

\* a second changeplan on the same account was turned down, the first one recorded
C17_Witness ==
    /\ Did("changeplan", "WrongPlanState")
    /\ Len(transactions) = 1
    /\ CodeField(transactions[1]) = <<"0", "8">>
    /\ accounts[AccountField(transactions[1])].plan = "NP"

\* C18: an account whose status is Disabled is Disabled after every command.
C18_DisabledStaysDisabled ==
    [][\A n \in DOMAIN accounts :
          accounts[n].status = "D" => accounts'[n].status = "D"]_vars

\* an account was disabled, and a second disable of it was accepted
C18_Witness ==
    /\ Did("disable", "ok")
    /\ Len(transactions) = 2
    /\ CodeField(transactions[1]) = <<"0", "7">>
    /\ CodeField(transactions[2]) = <<"0", "7">>
    /\ AccountField(transactions[1]) = AccountField(transactions[2])
    /\ accounts[AccountField(transactions[2])].status = "D"

\* C19: in every reachable state every account's balance is at least 0.
C19_BalancesNonNegative ==
    \A n \in DOMAIN accounts : Ge(accounts[n].balance, 0)

\* C20: a login attempted while a session is open is turned down, and the session's
\* mode, user and three running totals are what they were.
C20_NestedLoginRejected ==
    [][(logged_in /\ last'.cmd = "login") =>
          /\ last'.outcome = "AlreadyLoggedIn"
          /\ UNCHANGED session_vars]_vars

\* a login was turned down in a Standard session that has withdrawn money
C20_Witness ==
    /\ session_mode = "standard"
    /\ current_user_name = Al
    /\ withdrawal_total > 0
    /\ Did("login", "AlreadyLoggedIn")

\* C21: a logout in an open session ends with no session: logged out, no mode, no
\* current user and the three running totals zero, whether the file was written or the
\* write failed.
C21_LogoutAlwaysEnds ==
    [][(logged_in /\ last'.cmd = "logout") =>
          /\ last'.outcome \in {"ok", "IOError"}
          /\ ~logged_in'
          /\ session_mode' = "None"
          /\ current_user_name' = None
          /\ withdrawal_total' = 0
          /\ transfer_total' = 0
          /\ paybill_total' = 0]_vars

\* the write of a session's records failed, and the session is closed all the same
C21_Witness ==
    /\ Did("logout", "IOError")
    /\ ~logged_in
    /\ transactions # <<>>
    /\ file = <<>>

\* text of the form DDDDD.CC
IsAmountText(s) ==
    /\ Len(s) = 8
    /\ \A i \in {1, 2, 3, 4, 5, 7, 8} : IsDigit(s[i])
    /\ s[6] = "."

\* the amount, in thousandths, that an amount field stands for; -1 when it is no amount
DecodeAmount(s) ==
    IF IsAmountText(s)
    THEN ParseInt(SubSeq(s, 1, 5)) * Unit + ParseInt(SubSeq(s, 7, 8)) * (Unit \div 100)
    ELSE -1

\* C22: a successful withdrawal of a takes exactly a from one account, adds a to the
\* withdrawal total, changes no other account, and appends exactly one record of code
\* 01 with that account's number and an amount field that decodes back to a.
C22_WithdrawalExact ==
    [][(last'.cmd = "withdrawal" /\ last'.outcome = "ok") =>
          LET a    == withdrawal_total' - withdrawal_total
              line == transactions'[Len(transactions')]
          IN
          /\ a > 0
          /\ Len(transactions') = Len(transactions) + 1
          /\ CodeField(line) = <<"0", "1">>
          /\ \E n \in DOMAIN accounts :
                /\ AccountField(line) = n
                /\ accounts' = [accounts EXCEPT ![n].balance = accounts[n].balance - a]
          /\ DecodeAmount(AmountField(line)) = a]_vars

ProbeNamesCased == ProbeNames \cup {al}

\* C23: in an Admin session a delete, disable or changeplan naming an existing account
\* with a holder name that is not exactly the stored one fails with NameMismatch; that
\* rejection changes no account, no tombstone and not the record buffer; and the account
\* of a successful one is held under a name that was typed.
C23_NameMismatchRejected ==
    /\ [](is_admin =>
             \A name \in ProbeNamesCased, acc_num \in ProbeAccounts :
                 LET n == get_account(acc_num) IN
                 (n # None /\ accounts[n].holder_name # name) =>
                     /\ admin_check(name, acc_num) = "NameMismatch"
                     /\ change_plan_check(name, acc_num) = "NameMismatch")
    /\ [][/\ (last'.cmd \in {"delete", "disable", "changeplan"}
                /\ last'.outcome = "NameMismatch") =>
                UNCHANGED <<accounts, deleted_set, transactions>>
          /\ (last'.cmd \in {"delete", "disable", "changeplan"}
                /\ last'.outcome = "ok") =>
                accounts[AccountField(transactions'[Len(transactions')])].holder_name
                    \in {Strip(typed) : typed \in NameInputs}]_vars

\* a delete under a wrong name was turned down, nothing being deleted
C23_Witness ==
    /\ is_admin
    /\ Did("delete", "NameMismatch")
    /\ deleted_set = {}
    /\ transactions = <<>>

RECURSIVE DepositedSince(_, _)
\* the amounts of the deposit records for account n stored after record number i
DepositedSince(n, i) ==
    IF i >= Len(transactions) THEN 0
    ELSE (IF /\ CodeField(transactions[i + 1]) = <<"0", "4">>
             /\ AccountField(transactions[i + 1]) = n
             /\ IsAmountText(AmountField(transactions[i + 1]))
          THEN DecodeAmount(AmountField(transactions[i + 1]))
          ELSE 0) + DepositedSince(n, i + 1)

\* C24: a withdrawal, transfer or bill payment succeeds only if the account's balance
\* without the amounts deposited into it in the same session covers the amount.
C24_DepositsUnavailable ==
    [][(last'.cmd \in DebitCommands /\ last'.outcome = "ok") =>
          LET a == (withdrawal_total' + transfer_total' + paybill_total')
                   - (withdrawal_total + transfer_total + paybill_total)
              n == AccountField(transactions'[Len(transactions')])
          IN  accounts[n].balance - DepositedSince(n, session_first) >= a]_vars

\* the codes of the records that carry an amount
MoneyCodes == { <<"0", "1">>, <<"0", "2">>, <<"0", "3">>, <<"0", "4">>, <<"0", "5">> }

\* C25: the amount field of every record of a withdrawal, transfer, bill payment,
\* deposit or create is 8 characters of the form DDDDD.CC.
C25_AmountFieldFormat ==
    \A i \in DOMAIN transactions :
        CodeField(transactions[i]) \in MoneyCodes =>
            IsAmountText(AmountField(transactions[i]))

\* a transfer in a Standard session from an active account the user does not hold to
\* an account that does not exist
ForeignToMissing(from_acc, to_acc) ==
    /\ session_mode = "standard"
    /\ get_account(from_acc) # None
    /\ accounts[get_account(from_acc)].status = "A"
    /\ ~Owns(get_account(from_acc))
    /\ get_account(to_acc) = None

\* the amount of the transfer has no part in the order of the account checks: one small
\* and one large amount are tried
OrderAmounts == {Parsed(1), Parsed(2000001)}

\* C26 as claimed: existence is checked for both accounts before ownership, so that
\* transfer is turned down with AccountNotFound.
C26_ExistenceBeforeOwner ==
    \A from_acc \in ProbeAccounts, to_acc \in ProbeAccounts, amt \in OrderAmounts :
        ForeignToMissing(from_acc, to_acc) =>
            transfer_check(from_acc, to_acc, amt) = "AccountNotFound"

\* C26 as amended: the source account is checked for existence, status and ownership
\* before the destination is looked up, so that transfer is turned down with NotOwner;
\* a missing destination is reported only for a source that passed its checks.
C26_SourceBeforeDestination ==
    /\ \A from_acc \in ProbeAccounts, to_acc \in ProbeAccounts, amt \in OrderAmounts :
          ForeignToMissing(from_acc, to_acc) =>
              transfer_check(from_acc, to_acc, amt) = "NotOwner"
    /\ logged_in =>
          \A from_acc \in ProbeAccounts, to_acc \in ProbeAccounts, amt \in OrderAmounts :
              LET f == get_account(from_acc) IN
              (get_account(to_acc) = None
                 /\ transfer_check(from_acc, to_acc, amt) = "AccountNotFound"
                 /\ f # None) =>
                    /\ accounts[f].status = "A"
                    /\ is_admin \/ Owns(f)

\* a holder's transfer out of another holder's account was turned down for ownership,
\* an account that does not exist being among the numbers typed
C26_Witness ==
    /\ Did("transfer", "NotOwner")
    /\ \E from_acc \in AccountInputs, to_acc \in AccountInputs :
          ForeignToMissing(from_acc, to_acc)

\* amounts above every balance of the model's ledger are among the amounts tried
LargeAmounts == ProbeAmounts \cup {Parsed(5000000)}

\* a Standard session's debit of an active account the user holds, for more than the
\* account has
Overdraw(acc_num, amt) ==
    /\ session_mode = "standard"
    /\ get_account(acc_num) # None
    /\ accounts[get_account(acc_num)].status = "A"
    /\ Owns(get_account(acc_num))
    /\ amt.v > accounts[get_account(acc_num)].balance

C28_TotalsResetAndGrow ==
    [][/\ ((last'.cmd = "login" /\ last'.outcome = "ok") \/ ~logged_in') =>
              /\ withdrawal_total' = 0
              /\ transfer_total' = 0
              /\ paybill_total' = 0
       /\ (logged_in /\ logged_in') =>
              /\ withdrawal_total' >= withdrawal_total
              /\ transfer_total' >= transfer_total
              /\ paybill_total' >= paybill_total]_vars

\* a session opened after one that withdrew money starts with nothing withdrawn
C28_Witness ==
    /\ Did("login", "ok")
    /\ session_mode = "standard"
    /\ withdrawal_total = 0
    /\ session_first > 0
    /\ CodeField(transactions[1]) = <<"0", "1">>

\* the number typed is a tombstone
Deleted(acc_num) == ZFill(Strip(acc_num), AccountWidth) \in deleted_set

\* C29: deletion is terminal.  A tombstoned number is never looked up again: in a
\* session every withdrawal, deposit, bill payment and transfer out of it is turned down
\* with AccountNotFound, no transfer into it is accepted (with AccountNotFound when the
\* source is in order), and the administrator's delete, disable and changeplan of it are
\* turned down with AccountNotFound; a tombstone stays a tombstone, the account under it
\* is never changed, and no later record names it.
C29_DeletionTerminal ==
    /\ [](\A acc_num \in ProbeAccounts :
             Deleted(acc_num) =>
                /\ get_account(acc_num) = None
                /\ logged_in =>
                      \A amt \in ProbeAmounts, other \in ProbeAccounts :
                          /\ withdrawal_check(acc_num, amt) = "AccountNotFound"
                          /\ deposit_check(acc_num, amt) = "AccountNotFound"
                          /\ \A company \in ProbeCompanies :
                                paybill_check(acc_num, company, amt) = "AccountNotFound"
                          /\ transfer_check(acc_num, other, amt) = "AccountNotFound"
                          /\ transfer_check(other, acc_num, amt) # "ok"
                          /\ (/\ is_admin
                              /\ get_account(other) # None
                              /\ accounts[get_account(other)].status = "A") =>
                                transfer_check(other, acc_num, amt) = "AccountNotFound"
                /\ is_admin =>
                      \A name \in ProbeNames :
                          /\ admin_check(name, acc_num) = "AccountNotFound"
                          /\ change_plan_check(name, acc_num) = "AccountNotFound")
    /\ [][/\ deleted_set \subseteq deleted_set'
          /\ \A n \in deleted_set : accounts'[n] = accounts[n]
          /\ \A i \in DOMAIN transactions' :
                i > Len(transactions) =>
                    /\ AccountField(transactions'[i]) \notin deleted_set
                    /\ MiscField(transactions'[i]) \notin deleted_set]_vars

\* the administrator deleted account 00001, the only number typed, and a deposit to it
\* was then turned down
C29_Witness ==
    /\ AccountInputs = {Typed(1)}
    /\ deleted_set = {candidate(1)}
    /\ Did("deposit", "AccountNotFound")

RECURSIVE SumBalances(_, _)
\* the sum of the balances of the accounts numbered in S
SumBalances(ledger, S) ==
    IF S = {} THEN 0
    ELSE LET n == CHOOSE m \in S : TRUE
         IN  ledger[n].balance + SumBalances(ledger, S \ {n})

C31_LoginHasOwnedAccount ==
    (Did("login", "ok") /\ session_mode = "standard") =>
        \E n \in DOMAIN accounts \ deleted_set :
            accounts[n].holder_name = current_user_name

\* C32: every successful create appends a record of code 05 whose account field names
\* the new account and whose amount field decodes to the balance stored for it,
\* whatever initial balance was asked for.
C32_CreateRecordsStoredBalance ==
    [][(last'.cmd = "create" /\ last'.outcome = "ok") =>
          LET line == transactions'[Len(transactions')]
              n    == AccountField(line)
          IN
          /\ Len(transactions') = Len(transactions) + 1
          /\ CodeField(line) = <<"0", "5">>
          /\ n \in DOMAIN accounts' \ DOMAIN accounts
          /\ DecodeAmount(AmountField(line)) = accounts'[n].balance]_vars

\* the account behind a typed number exists and is disabled
Disabled(acc_num) ==
    get_account(acc_num) # None /\ accounts[get_account(acc_num)].status = "D"

\* amounts tried against disabled accounts: within every limit and every balance
FrozenAmounts == {Parsed(1), Parsed(100000)}

\* C33: the balance of a disabled account never changes.  In every state, in a
\* Standard or an Admin session, a withdrawal, bill payment or deposit on a disabled
\* account and a transfer out of it or into it is rejected for every amount; and no
\* step changes the balance of an account that is disabled, or removes the account.
C33_DisabledBalanceFrozen ==
    /\ [](\A acc \in ProbeAccounts : Disabled(acc) =>
             \A amt \in FrozenAmounts :
                /\ withdrawal_check(acc, amt) # "ok"
                /\ deposit_check(acc, amt) # "ok"
                /\ \A company \in ProbeCompanies : paybill_check(acc, company, amt) # "ok"
                /\ \A other \in ProbeAccounts :
                      /\ transfer_check(acc, other, amt) # "ok"
                      /\ transfer_check(other, acc, amt) # "ok")
    /\ [][\A n \in DOMAIN accounts :
             accounts[n].status = "D" =>
                /\ n \in DOMAIN accounts'
                /\ accounts'[n].balance = accounts[n].balance]_vars

\* an account disabled during the run, still holding what it held, and a transfer
\* naming it was turned away
C33_Witness ==
    /\ accounts[candidate(1)].status = "D"
    /\ candidate(1) \notin deleted_set
    /\ logged_in
    /\ Did("transfer", "AccountDisabled")

\* amounts above 0, from the smallest a float can hold upward
PositiveAmounts == {Parsed(Tiny), Parsed(1), Parsed(10), Parsed(500000), Parsed(Infinity)}

\* an account the current user may draw on: it exists, is active and is theirs
Usable(acc_num) ==
    /\ get_account(acc_num) # None
    /\ is_valid_for(accounts[get_account(acc_num)], current_user_name)

\* C34: the limits are inclusive.  In a Standard session a withdrawal, transfer or
\* bill payment on the user's own active account that brings the running total to
\* exactly the limit passes the limit check, and once a total equals its limit every
\* amount above 0 of that kind is rejected with LimitExceeded.
C34_LimitsInclusive ==
    session_mode = "standard" =>
        \A acc \in ProbeAccounts : Usable(acc) =>
            /\ withdrawal_total < STANDARD_WITHDRAWAL_LIMIT =>
                  withdrawal_check(acc, Parsed(STANDARD_WITHDRAWAL_LIMIT - withdrawal_total))
                      = "ok"
            /\ transfer_total < STANDARD_TRANSFER_LIMIT =>
                  transfer_check(acc, acc, Parsed(STANDARD_TRANSFER_LIMIT - transfer_total))
                      = "ok"
            /\ paybill_total < STANDARD_PAYBILL_LIMIT =>
                  \A company \in ProbeCompanies :
                      paybill_check(acc, company,
                                    Parsed(STANDARD_PAYBILL_LIMIT - paybill_total)) = "ok"
            /\ \A amt \in PositiveAmounts :
                  /\ withdrawal_total = STANDARD_WITHDRAWAL_LIMIT =>
                        withdrawal_check(acc, amt) = "LimitExceeded"
                  /\ transfer_total = STANDARD_TRANSFER_LIMIT =>
                        transfer_check(acc, acc, amt) = "LimitExceeded"
                  /\ paybill_total = STANDARD_PAYBILL_LIMIT =>
                        \A company \in ProbeCompanies :
                            paybill_check(acc, company, amt) = "LimitExceeded"

====
